---- MODULE Spec2Model ----
(***************************************************************************)
(* Model of assistant_bot.py: the contact book (AddressBook, Record and    *)
(* the field validators) and the notebook (Notebook, TagManager).          *)
(*                                                                         *)
(* A Python str is a sequence of one-character strings.  A dict is a       *)
(* sequence of [key, value] entries in insertion order.  None is the       *)
(* empty sequence where the value is an object (birthday) and 0 where it   *)
(* is an id.                                                               *)
(***************************************************************************)
EXTENDS Integers, Sequences, FiniteSets, TLC

VARIABLES
    data,               \* AddressBook.data: the id -> Record dict
    next_id,            \* AddressBook.next_id
    free_ids,           \* AddressBook.free_ids
    book_file,          \* address_book.pkl: <<>> when missing, else <<pickled data>>
    saved,              \* history: next_id and free_ids of the book when it was last saved
    reloaded,           \* history: TRUE iff the book is as load_address_book returned it
    heap,               \* the list objects Notebook.notes / TagManager.notes may refer to
    notebook_notes,     \* Notebook.notes: a reference into heap
    tag_manager_notes,  \* TagManager.notes: a reference into heap
    notes_file,         \* notes.pkl: <<>> when missing, else <<pickled list>>
    clock,              \* history: number of notes created so far
    now,                \* what datetime.now() returns
    edits,              \* history: number of edit_record calls so far
    objects,            \* history: number of Phone / Email objects constructed so far
    the_record,         \* a Record: its phones and emails lists of objects
    current,            \* AddressBook.current: <<>> until __iter__ sets it
    iteration,          \* history: the iteration under way and the batches it yielded
    op                  \* history: the last operation, its inputs and what it returned

vars == <<data, next_id, free_ids, book_file, saved, reloaded, heap,
          notebook_notes, tag_manager_notes, notes_file, clock, now, edits,
          objects, the_record, current, iteration, op>>

bookVars == <<data, next_id, free_ids, book_file, saved, reloaded>>
noteVars == <<heap, notebook_notes, tag_manager_notes, notes_file, clock>>
recordVars == <<objects, the_record>>
iterVars == <<current, iteration>>

(***************************************************************************)
(* Bounds                                                                  *)
(***************************************************************************)
MaxRecords == 3       \* records alive in the book of the id-management specification
MaxContacts == 2      \* records alive in the book of the search/edit specification
MaxEdits == 1         \* edit_record calls in the search/edit specification
MaxNotes == 2         \* notes ever created in the notebook specification

(***************************************************************************)
(* str                                                                     *)
(***************************************************************************)
DigitSeq == <<"0", "1", "2", "3", "4", "5", "6", "7", "8", "9">>
UpperSeq == <<"A", "B", "C", "D", "E", "F", "G", "H", "I", "J", "K", "L", "M",
              "N", "O", "P", "Q", "R", "S", "T", "U", "V", "W", "X", "Y", "Z">>
LowerSeq == <<"a", "b", "c", "d", "e", "f", "g", "h", "i", "j", "k", "l", "m",
              "n", "o", "p", "q", "r", "s", "t", "u", "v", "w", "x", "y", "z">>

Range(s) == {s[i] : i \in 1..Len(s)}

Digit == Range(DigitSeq)
Whitespace == {" ", "\t", "\n"}

\* str.lower() on one character
LowerChar(c) ==
    IF c \in Range(UpperSeq)
    THEN LowerSeq[CHOOSE i \in 1..26 : UpperSeq[i] = c]
    ELSE c

\* str.lower()
str_lower(s) == [i \in 1..Len(s) |-> LowerChar(s[i])]

\* `sub in s` on two str
str_contains(sub, s) ==
    \E i \in 0..(Len(s) - Len(sub)) : SubSeq(s, i + 1, i + Len(sub)) = sub

RECURSIVE str_lstrip(_)
str_lstrip(s) ==
    IF s # <<>> /\ Head(s) \in Whitespace THEN str_lstrip(Tail(s)) ELSE s

RECURSIVE str_rstrip(_)
str_rstrip(s) ==
    IF s # <<>> /\ s[Len(s)] \in Whitespace
    THEN str_rstrip(SubSeq(s, 1, Len(s) - 1))
    ELSE s

\* str.strip()
str_strip(s) == str_rstrip(str_lstrip(s))

\* str.replace(old, "") for a non-empty old
RECURSIVE str_remove(_, _)
str_remove(s, old) ==
    IF Len(s) < Len(old) THEN s
    ELSE IF SubSeq(s, 1, Len(old)) = old
         THEN str_remove(SubSeq(s, Len(old) + 1, Len(s)), old)
         ELSE <<Head(s)>> \o str_remove(Tail(s), old)

\* str.isdigit(), on the ASCII alphabet
str_isdigit(s) == s # <<>> /\ \A i \in 1..Len(s) : s[i] \in Digit

DigitValue(c) == (CHOOSE i \in 1..10 : DigitSeq[i] = c) - 1

RECURSIVE DigitsValue(_)
DigitsValue(s) ==
    IF s = <<>> THEN 0
    ELSE 10 * DigitsValue(SubSeq(s, 1, Len(s) - 1)) + DigitValue(s[Len(s)])

\* int(s): <<>> stands for ValueError, <<n>> for the integer n
int(s) ==
    LET t == str_strip(s)
        signed == t # <<>> /\ Head(t) \in {"+", "-"}
        digits == IF signed THEN Tail(t) ELSE t
    IN  IF ~str_isdigit(digits) THEN <<>>
        ELSE IF signed /\ Head(t) = "-" THEN <<0 - DigitsValue(digits)>>
        ELSE <<DigitsValue(digits)>>

(***************************************************************************)
(* Validators                                                              *)
(***************************************************************************)
\* a pattern anchored with ^...$ : `$` also matches before one final "\n"
DollarBodies(s) ==
    {s} \cup (IF s # <<>> /\ s[Len(s)] = "\n" THEN {SubSeq(s, 1, Len(s) - 1)} ELSE {})

\* PhoneValidator.validate: ^\d{9}$
PhoneValidator(phone_number) ==
    \E b \in DollarBodies(phone_number) :
        Len(b) = 9 /\ \A i \in 1..9 : b[i] \in Digit

Alnum == Range(LowerSeq) \cup Range(UpperSeq) \cup Digit
EmailLocalChar == Alnum \cup {"_", ".", "+", "-"}
EmailHostChar == Alnum \cup {"-"}
EmailTailChar == Alnum \cup {"-", "."}

AllIn(s, from, to, class) == \A i \in from..to : s[i] \in class

\* EmailValidator.validate: ^[a-zA-Z0-9_.+-]+@[a-zA-Z0-9-]+\.[a-zA-Z0-9-.]+$
EmailValidator(email) ==
    \E b \in DollarBodies(email) :
        \E at \in 2..Len(b) : \E dot \in (at + 2)..(Len(b) - 1) :
            /\ b[at] = "@"
            /\ b[dot] = "."
            /\ AllIn(b, 1, at - 1, EmailLocalChar)
            /\ AllIn(b, at + 1, dot - 1, EmailHostChar)
            /\ AllIn(b, dot + 1, Len(b), EmailTailChar)

IsLeap(y) == (y % 4 = 0 /\ y % 100 # 0) \/ y % 400 = 0

DaysInMonth(y, m) ==
    IF m = 2 THEN (IF IsLeap(y) THEN 29 ELSE 28)
    ELSE IF m \in {4, 6, 9, 11} THEN 30 ELSE 31

\* the positions of "-" in s
Dashes(s) == {i \in 1..Len(s) : s[i] = "-"}

\* strptime's %m: 1[0-2]|0[1-9]|[1-9]
MonthField(f) == str_isdigit(f) /\ Len(f) <= 2 /\ DigitsValue(f) \in 1..12

\* strptime's %d: 3[01]|[12]\d|0[1-9]|[1-9]| [1-9]
DayField(f) ==
    \/ str_isdigit(f) /\ Len(f) <= 2 /\ DigitsValue(f) \in 1..31
    \/ Len(f) = 2 /\ f[1] = " " /\ f[2] \in (Digit \ {"0"})

\* datetime.strptime(s, "%Y-%m-%d"): <<>> stands for ValueError,
\* <<[year, month, day]>> for the parsed date (at midnight)
strptime(s) ==
    IF Cardinality(Dashes(s)) # 2 THEN <<>>
    ELSE LET d1 == CHOOSE i \in Dashes(s) : \A j \in Dashes(s) : i <= j
             d2 == CHOOSE i \in Dashes(s) : \A j \in Dashes(s) : i >= j
             y == SubSeq(s, 1, d1 - 1)
             m == SubSeq(s, d1 + 1, d2 - 1)
             d == SubSeq(s, d2 + 1, Len(s))
         IN  IF ~(Len(y) = 4 /\ str_isdigit(y) /\ MonthField(m) /\ DayField(d))
             THEN <<>>
             ELSE LET yy == DigitsValue(y)
                      mm == DigitsValue(m)
                      dd == DigitsValue(str_lstrip(d))
                  IN  IF yy >= 1 /\ dd <= DaysInMonth(yy, mm)
                      THEN <<[year |-> yy, month |-> mm, day |-> dd]>>
                      ELSE <<>>

\* BirthdayValidator.validate
BirthdayValidator(birthday) == strptime(birthday) # <<>>

(***************************************************************************)
(* dict                                                                    *)
(***************************************************************************)
\* the keys of a dict, as a set
Keys(d) == {d[i].key : i \in 1..Len(d)}

\* d[k] for a key that is present
Get(d, k) == d[CHOOSE i \in 1..Len(d) : d[i].key = k].value

\* d[k] = v: a present key keeps its position, a new key goes last
Put(d, k, v) ==
    IF k \in Keys(d)
    THEN [i \in 1..Len(d) |-> IF d[i].key = k THEN [key |-> k, value |-> v] ELSE d[i]]
    ELSE Append(d, [key |-> k, value |-> v])

\* del d[k]
Del(d, k) == SelectSeq(d, LAMBDA e : e.key # k)

\* list(d.values())
Values(d) == [i \in 1..Len(d) |-> d[i].value]

(***************************************************************************)
(* Record                                                                  *)
(***************************************************************************)
\* Record.__init__
Record(name, birthday) ==
    [id |-> 0, name |-> name, phones |-> <<>>, emails |-> <<>>, birthday |-> birthday]

\* Record.add_phone
add_phone(record, phone) == [record EXCEPT !.phones = Append(@, phone)]

\* Record.add_email
add_email(record, email) == [record EXCEPT !.emails = Append(@, email)]

\* create_record's birthday loop: the first input that validates, else None
FirstValid(inputs) ==
    LET ok == {i \in 1..Len(inputs) : BirthdayValidator(inputs[i])}
    IN  IF ok = {} THEN <<>>
        ELSE <<inputs[CHOOSE i \in ok : \A j \in ok : i <= j]>>

\* create_record, given the name, the non-empty lines typed at the birthday
\* prompt, at the phone prompt and at the email prompt (no address): each
\* phone and email loop adds every line that validates and asks again after
\* every other
create_record(name_input, birthday_inputs, phone_inputs, email_inputs) ==
    LET record == Record(name_input, FirstValid(birthday_inputs))
    IN  [record EXCEPT !.phones = SelectSeq(phone_inputs, PhoneValidator),
                       !.emails = SelectSeq(email_inputs, EmailValidator)]

(***************************************************************************)
(* AddressBook: id management                                              *)
(***************************************************************************)
\* the loop skipped: next_id is returned as it stands
AdvanceNextId_skipped(n, d, free) == n

RECURSIVE AdvanceNextId(_, _, _)
\* the while loop of _get_next_record_id
AdvanceNextId(n, d, free) ==
    IF n \in Keys(d) \/ n \in free THEN AdvanceNextId(n + 1, d, free) ELSE n

\* set.pop(): removes and returns an arbitrary element; the set of elements
\* it may return
set_pop(s) == s

\* the free ids ignored: the advanced next_id is always the id returned
get_next_record_id_fresh(n, d, free) ==
    LET advanced == AdvanceNextId(n, d, free)
    IN  {[id |-> advanced, next_id |-> advanced, free_ids |-> free]}

\* _get_next_record_id: the outcomes it may have, each the id returned and
\* the next_id and free_ids it leaves
get_next_record_id(n, d, free) ==
    LET advanced == AdvanceNextId(n, d, free)
    IN  IF free # {}
        THEN {[id |-> i, next_id |-> advanced, free_ids |-> free \ {i}] :
                 i \in set_pop(free)}
        ELSE {[id |-> advanced, next_id |-> advanced, free_ids |-> free]}

\* AddressBook.add_record
add_record(record) ==
    /\ \E out \in get_next_record_id(next_id, data, free_ids) :
          /\ data' = Put(data, out.id, [record EXCEPT !.id = out.id])
          /\ next_id' = out.next_id
          /\ free_ids' = out.free_ids
          /\ op' = [name |-> "add_record",
                   arg |-> [record |-> record, reloaded |-> reloaded,
                            free_ids |-> free_ids],
                   ret |-> out.id]
    /\ reloaded' = FALSE
    /\ UNCHANGED <<book_file, saved, now, edits>>
    /\ UNCHANGED <<noteVars, recordVars, iterVars>>

\* the id typed put among the free ids whether or not the book holds it
DeleteId_unchecked(name, id_input) ==
    LET record_id == int(id_input)
    IN  /\ IF record_id # <<>>
           THEN /\ data' = Del(data, record_id[1])
                /\ free_ids' = free_ids \cup {record_id[1]}
                /\ op' = [name |-> name, arg |-> id_input, ret |-> record_id[1]]
           ELSE /\ UNCHANGED <<data, free_ids>>
                /\ op' = [name |-> name, arg |-> id_input, ret |-> 0]
        /\ reloaded' = FALSE
        /\ UNCHANGED <<next_id, book_file, saved, now, edits>>
        /\ UNCHANGED <<noteVars, recordVars, iterVars>>

\* the part delete_record_by_id and delete_record share: int() of the id
\* typed, then the removal
DeleteId(name, id_input) ==
    LET record_id == int(id_input)
    IN  /\ IF record_id # <<>> /\ record_id[1] \in Keys(data)
           THEN /\ data' = Del(data, record_id[1])
                /\ free_ids' = free_ids \cup {record_id[1]}
                /\ op' = [name |-> name, arg |-> id_input, ret |-> record_id[1]]
           ELSE /\ UNCHANGED <<data, free_ids>>
                /\ op' = [name |-> name, arg |-> id_input, ret |-> 0]
        /\ reloaded' = FALSE
        /\ UNCHANGED <<next_id, book_file, saved, now, edits>>
        /\ UNCHANGED <<noteVars, recordVars, iterVars>>

\* AddressBook.delete_record_by_id, given the line typed at its prompt
delete_record_by_id(user_input) ==
    DeleteId("delete_record_by_id",
             str_strip(str_remove(str_strip(user_input), <<"I", "D", ":", " ">>)))

\* save_address_book: pickles book.data only
save_address_book ==
    /\ book_file' = <<data>>
    /\ saved' = [next_id |-> next_id, free_ids |-> free_ids]
    /\ op' = [name |-> "save_address_book", arg |-> <<>>, ret |-> 0]
    /\ reloaded' = FALSE
    /\ UNCHANGED <<data, next_id, free_ids, now, edits>>
    /\ UNCHANGED <<noteVars, recordVars, iterVars>>

\* the pickled dict put into the book at hand instead of a fresh AddressBook
load_address_book_same_book ==
    /\ data' = IF book_file = <<>> THEN <<>> ELSE book_file[1]
    /\ reloaded' = (book_file # <<>>)
    /\ op' = [name |-> "load_address_book", arg |-> <<>>, ret |-> 0]
    /\ UNCHANGED <<next_id, free_ids, book_file, saved, now, edits>>
    /\ UNCHANGED <<noteVars, recordVars, iterVars>>

\* load_address_book: a fresh AddressBook, given the pickled dict if the
\* file exists
load_address_book ==
    /\ data' = IF book_file = <<>> THEN <<>> ELSE book_file[1]
    /\ next_id' = 1
    /\ free_ids' = {}
    /\ reloaded' = (book_file # <<>>)
    /\ op' = [name |-> "load_address_book", arg |-> <<>>, ret |-> 0]
    /\ UNCHANGED <<book_file, saved, now, edits>>
    /\ UNCHANGED <<noteVars, recordVars, iterVars>>

(***************************************************************************)
(* Initial state                                                           *)
(***************************************************************************)
\* the list objects the model tells apart: the notes the two references
\* may refer to
Ref == {1, 2}

\* datetime.min
datetime_min == 0

\* AddressBook.__init__, with no address_book.pkl yet
BookInit ==
    /\ data = <<>>
    /\ next_id = 1
    /\ free_ids = {}
    /\ book_file = <<>>
    /\ saved = [next_id |-> 1, free_ids |-> {}]
    /\ reloaded = FALSE

\* Notebook.__init__: TagManager is given the list Notebook.notes refers to
NotebookInit ==
    /\ heap = [r \in Ref |-> <<>>]
    /\ notebook_notes = 1
    /\ tag_manager_notes = 1
    /\ notes_file = <<>>
    /\ clock = 0

\* Record.__init__: the phones and emails lists start empty; no Phone or
\* Email object exists yet
RecordInit ==
    /\ objects = 0
    /\ the_record = [phones |-> <<>>, emails |-> <<>>]

\* AddressBook.__init__ sets no current attribute: no iteration was begun
IterInit ==
    /\ current = <<>>
    /\ iteration = [state |-> "none", clean |-> TRUE, store |-> <<>>,
                    batches |-> <<>>]

NoOp == [name |-> "init", arg |-> <<>>, ret |-> 0]

(***************************************************************************)
(* Specification of the id management: add, delete, save, load             *)
(***************************************************************************)
StrAn == <<"A", "n">>
StrBo == <<"B", "o">>

\* the records typed in: a name and nothing else
IdsRecords == {create_record(StrAn, <<>>, <<>>, <<>>)}

\* the lines typed at delete_record_by_id's prompt
IdInputs ==
    {<<DigitSeq[i + 1]>> : i \in 1..MaxRecords}
        \cup {<<"I", "D", ":", " ", "2">>, <<" ", "1">>, <<"x">>, <<>>, <<"-", "1">>}

InitIds ==
    /\ BookInit
    /\ NotebookInit
    /\ RecordInit
    /\ IterInit
    /\ now = 0
    /\ edits = 0
    /\ op = NoOp

IdsAdd == Len(data) < MaxRecords /\ \E r \in IdsRecords : add_record(r)

IdsDelete == \E i \in IdInputs : delete_record_by_id(i)

IdsSave == save_address_book

IdsLoad == load_address_book

NextIds == IdsAdd \/ IdsDelete \/ IdsSave \/ IdsLoad

SpecIds == InitIds /\ [][NextIds]_vars

(***************************************************************************)
(* Claims on the id management                                             *)
(***************************************************************************)
Min(S) == CHOOSE x \in S : \A y \in S : x <= y

\* C1: at all times every id in the mapping is >= 1, no two entries have the
\* same id and each record's own id is its key; add_record assigns an id
\* that is not in the mapping, so it adds one entry and leaves every other
\* entry as it was.
C1_IdsUniqueAndPositive ==
    /\ [](\A i \in 1..Len(data) :
            /\ data[i].key >= 1
            /\ data[i].value.id = data[i].key
            /\ \A j \in 1..Len(data) : data[j].key = data[i].key => j = i)
    /\ [][op'.name = "add_record" =>
            /\ op'.ret \notin Keys(data)
            /\ Len(data') = Len(data) + 1
            /\ \A k \in Keys(data) : Get(data', k) = Get(data, k)]_vars

\* C1 witness: a record was added to a book loaded from the file, beside
\* the records that were loaded
C1_Witness ==
    /\ op.name = "add_record"
    /\ op.arg.reloaded
    /\ Len(data) >= 2
    /\ Get(data, op.ret).id = op.ret

\* C2: when the free ids are not empty, add_record gets the smallest of
\* them; when they are empty it gets next_id, advanced past the ids of the
\* mapping.
C2_SmallestFreeIdFirst ==
    [][op'.name = "add_record" =>
          IF free_ids # {}
          THEN op'.ret = Min(free_ids)
          ELSE op'.ret = next_id' /\ next_id' >= next_id
               /\ next_id' \notin Keys(data)]_vars

\* C3: an add_record that follows the deletion of id k finds k among the
\* free ids; whenever a free id exists add_record assigns one of the free
\* ids, never a fresh one, and takes it out of the free ids.
C3_FreedIdReused ==
    [][op'.name = "add_record" =>
          /\ (op.name = "delete_record_by_id" /\ op.ret # 0) => op.ret \in free_ids
          /\ free_ids # {} =>
                /\ op'.ret \in free_ids
                /\ free_ids' = free_ids \ {op'.ret}]_vars

\* C3 witness: two ids were free and add_record took one of them
C3_Witness ==
    /\ op.name = "add_record"
    /\ Cardinality(op.arg.free_ids) = 2
    /\ op.ret \in op.arg.free_ids
    /\ Cardinality(free_ids) = 1

\* the ids the book that was saved could have given to its next record
SavedNextIds ==
    {out.id : out \in get_next_record_id(saved.next_id, book_file[1], saved.free_ids)}

\* the smallest id >= 1 that is not a key of d
RECURSIVE SmallestAbsentFrom(_, _)
SmallestAbsentFrom(n, d) == IF n \in Keys(d) THEN SmallestAbsentFrom(n + 1, d) ELSE n

\* C4 as stated: the book that load_address_book returns holds the mapping
\* that was saved, and the first add_record on it behaves as on the saved
\* book: it assigns an id the saved book could have assigned (one of its free
\* ids if it had any, else the id it would have advanced to).
C4_ReloadedAddsAsOriginal ==
    /\ reloaded => data = book_file[1]
    /\ (op.name = "add_record" /\ op.arg.reloaded) => op.ret \in SavedNextIds

\* C4 amended: the book that load_address_book returns holds the mapping
\* that was saved, entry for entry; the first add_record on it assigns the
\* smallest id >= 1 that is not in the mapping; that is an id the saved book
\* could have assigned if the saved book had no free id or had that id free.
C4_RoundTrip ==
    /\ reloaded => data = book_file[1]
    /\ (op.name = "add_record" /\ op.arg.reloaded) =>
          /\ op.ret = SmallestAbsentFrom(1, book_file[1])
          /\ (saved.free_ids = {} \/ op.ret \in saved.free_ids) => op.ret \in SavedNextIds

\* C4 witness: the book {1, 3}, with 2 deleted, was saved and loaded, and
\* the next record got id 2
C4_Witness ==
    /\ op.name = "add_record"
    /\ op.arg.reloaded
    /\ op.ret = 2
    /\ Keys(book_file[1]) = {1, 3}
    /\ saved.free_ids = {2}

(***************************************************************************)
(* AddressBook: search and edit                                            *)
(***************************************************************************)
\* one pass of find_record's loop body: the record as many times as the
\* body appends it
find_in_record(search_term, record) ==
    IF str_contains(str_lower(search_term), str_lower(record.name))
    THEN <<record>>
    ELSE (IF \E i \in 1..Len(record.phones) : str_contains(search_term, record.phones[i])
          THEN <<record>> ELSE <<>>)
         \o
         (IF \E i \in 1..Len(record.emails) : str_contains(search_term, record.emails[i])
          THEN <<record>> ELSE <<>>)

RECURSIVE find_in_records(_, _)
find_in_records(search_term, records) ==
    IF records = <<>> THEN <<>>
    ELSE find_in_record(search_term, Head(records))
             \o find_in_records(search_term, Tail(records))

\* AddressBook.find_record: found_records
find_record(search_term, d) == find_in_records(search_term, Values(d))

\* AddressBook.find_records_by_name: the entries whose name matches
find_records_by_name(name, d) ==
    SelectSeq(d, LAMBDA e : str_contains(str_lower(name), str_lower(e.value.name)))

\* the answer to a prompt that edit_record did not reach
NotAsked == <<"not asked">>

\* edit_record, "Edycja imienia i nazwiska"
edit_name_step(record, new_name_input) ==
    IF new_name_input # <<>> THEN [record EXCEPT !.name = new_name_input] ELSE record

\* TRUE iff edit_record goes on to ask for the new value of an entry of list
ChoiceInRange(list, choice) ==
    /\ list # <<>>
    /\ str_isdigit(choice)
    /\ DigitsValue(choice) - 1 >= 0
    /\ DigitsValue(choice) - 1 < Len(list)

\* the phone typed stored without the validator's consent
edit_phone_step_unvalidated(record, phone_choice, new_phone_value) ==
    IF ChoiceInRange(record.phones, phone_choice)
    THEN [record EXCEPT !.phones[DigitsValue(phone_choice)] = new_phone_value]
    ELSE record

\* edit_record, "Edycja numeru telefonu"
edit_phone_step(record, phone_choice, new_phone_value) ==
    IF ChoiceInRange(record.phones, phone_choice) /\ PhoneValidator(new_phone_value)
    THEN [record EXCEPT !.phones[DigitsValue(phone_choice)] = new_phone_value]
    ELSE record

\* edit_record, "Edycja adresu email"
edit_email_step(record, email_choice, new_email_value) ==
    IF ChoiceInRange(record.emails, email_choice) /\ EmailValidator(new_email_value)
    THEN [record EXCEPT !.emails[DigitsValue(email_choice)] = new_email_value]
    ELSE record

\* edit_record, the birthday
edit_birthday_step(record, new_birthday_input) ==
    IF new_birthday_input # <<>> /\ BirthdayValidator(new_birthday_input)
    THEN [record EXCEPT !.birthday = <<new_birthday_input>>]
    ELSE record

\* a rejected phone or email ends the edit and undoes the new name
edit_fields_all_or_nothing(record, a) ==
    LET rejected ==
            \/ ChoiceInRange(record.phones, a.phone_choice) /\ ~PhoneValidator(a.new_phone)
            \/ ChoiceInRange(record.emails, a.email_choice) /\ ~EmailValidator(a.new_email)
    IN  IF rejected THEN record
        ELSE edit_birthday_step(
                 edit_email_step(
                     edit_phone_step(edit_name_step(record, a.new_name),
                                     a.phone_choice, a.new_phone),
                     a.email_choice, a.new_email),
                 a.new_birthday)

\* edit_record from the name prompt to the end, on the record chosen: the
\* four sub-steps in the order of the code
edit_fields(record, a) ==
    edit_birthday_step(
        edit_email_step(
            edit_phone_step(edit_name_step(record, a.new_name),
                            a.phone_choice, a.new_phone),
            a.email_choice, a.new_email),
        a.new_birthday)

\* the answers edit_record gets, when it stops before the name prompt
EditStopped(name_to_edit, id_input) ==
    [name_to_edit |-> name_to_edit, id_input |-> id_input, new_name |-> NotAsked,
     phone_choice |-> NotAsked, new_phone |-> NotAsked,
     email_choice |-> NotAsked, new_email |-> NotAsked, new_birthday |-> NotAsked]

\* what edit_record does with the answers a; every prompt it does not
\* reach has the answer NotAsked
edit_record_with(a) ==
    LET record_id == int(a.id_input)
        stopped ==
            IF find_records_by_name(a.name_to_edit, data) = <<>> THEN "no match"
            ELSE IF str_strip(a.id_input) = <<>> THEN "cancelled"
            ELSE IF record_id = <<>> THEN "not a number"
            ELSE IF record_id[1] \notin Keys(data) THEN "not found"
            ELSE "no"
    IN  /\ IF stopped # "no"
           THEN /\ UNCHANGED data
                /\ op' = [name |-> "edit_record", arg |-> a, ret |-> stopped]
           ELSE /\ data' = Put(data, record_id[1], edit_fields(Get(data, record_id[1]), a))
                /\ op' = [name |-> "edit_record", arg |-> a, ret |-> "updated"]
        /\ reloaded' = FALSE
        /\ edits' = edits + 1
        /\ UNCHANGED <<next_id, free_ids, book_file, saved, now>>
        /\ UNCHANGED <<noteVars, recordVars, iterVars>>

\* AddressBook.find_record as main calls it
FindRecord(search_term) ==
    /\ op' = [name |-> "find_record", arg |-> search_term,
              ret |-> find_record(search_term, data)]
    /\ UNCHANGED <<data, next_id, free_ids, book_file, saved, reloaded, now, edits>>
    /\ UNCHANGED <<noteVars, recordVars, iterVars>>

(***************************************************************************)
(* Specification of search and edit: add, find, edit                       *)
(***************************************************************************)
Phone1 == <<"5", "0", "0", "5", "0", "0", "5", "0", "0">>
Phone2 == <<"1", "2", "3", "4", "5", "6", "7", "8", "9">>
PhoneBad == <<"1", "2", "3", "4", "5", "6", "7", "8">>
Email1 == <<"a", "5", "@", "b", ".", "c">>
Email2 == <<"c", "@", "d", ".", "e">>
EmailBad == <<"a", "5", "@", "b">>
Birthday1 == <<"2", "0", "0", "0", "-", "0", "2", "-", "2", "9">>
BirthdayBad == <<"2", "0", "0", "1", "-", "0", "2", "-", "2", "9">>

\* the records typed in at create_record's prompts
ContactRecords ==
    {create_record(StrAn, <<>>, <<Phone1, PhoneBad, Phone2>>, <<EmailBad, Email1>>),
     create_record(StrBo, <<BirthdayBad>>, <<>>, <<>>)}

\* the phrases typed at find's prompt
SearchTerms == {<<"5">>, <<"a", "N">>, <<"b">>, <<"@">>, <<"z">>, <<>>}

\* the lines typed at edit_record's prompts
NameQueries == {<<>>, <<"z">>}
EditIdInputs == {<<DigitSeq[i + 1]>> : i \in 1..MaxContacts} \cup {<<>>, <<"x">>}
NameInputs == {<<>>, StrBo}
PhoneChoiceInputs == {<<>>, <<"2">>, <<"9">>}
PhoneInputs == {Phone1, PhoneBad}
EmailChoiceInputs == {<<>>, <<"1">>}
EmailInputs == {Email2, EmailBad}
BirthdayInputs == {<<>>, Birthday1, BirthdayBad}

\* AddressBook.edit_record: the prompts it reaches, each with a line typed
edit_record ==
    \E n \in NameQueries :
        IF find_records_by_name(n, data) = <<>>
        THEN edit_record_with(EditStopped(n, NotAsked))
        ELSE \E i \in EditIdInputs :
            IF str_strip(i) = <<>> \/ int(i) = <<>> \/ int(i)[1] \notin Keys(data)
            THEN edit_record_with(EditStopped(n, i))
            ELSE LET record == Get(data, int(i)[1])
                 IN  \E nn \in NameInputs :
                     \E pc \in (IF record.phones # <<>> THEN PhoneChoiceInputs ELSE {NotAsked}) :
                     \E np \in (IF ChoiceInRange(record.phones, pc) THEN PhoneInputs ELSE {NotAsked}) :
                     \E ec \in (IF record.emails # <<>> THEN EmailChoiceInputs ELSE {NotAsked}) :
                     \E ne \in (IF ChoiceInRange(record.emails, ec) THEN EmailInputs ELSE {NotAsked}) :
                     \E nb \in BirthdayInputs :
                         edit_record_with(
                             [name_to_edit |-> n, id_input |-> i, new_name |-> nn,
                              phone_choice |-> pc, new_phone |-> np,
                              email_choice |-> ec, new_email |-> ne, new_birthday |-> nb])

InitContacts ==
    /\ BookInit
    /\ NotebookInit
    /\ RecordInit
    /\ IterInit
    /\ now = 0
    /\ edits = 0
    /\ op = NoOp

ContactsAdd == Len(data) < MaxContacts /\ \E r \in ContactRecords : add_record(r)

ContactsFind == \E t \in SearchTerms : FindRecord(t)

ContactsEdit == edits < MaxEdits /\ edit_record

NextContacts == ContactsAdd \/ ContactsFind \/ ContactsEdit

SpecContacts == InitContacts /\ [][NextContacts]_vars

(***************************************************************************)
(* Claims on search and edit                                               *)
(***************************************************************************)
\* TRUE iff the record matches the term: the name without regard to case, a
\* phone or an email as typed
Matches(search_term, record) ==
    \/ str_contains(str_lower(search_term), str_lower(record.name))
    \/ \E i \in 1..Len(record.phones) : str_contains(search_term, record.phones[i])
    \/ \E i \in 1..Len(record.emails) : str_contains(search_term, record.emails[i])

\* C5: find_record returns the records that match the term, in the order of
\* the mapping, each of them once.
C5_FindEachMatchOnce ==
    op.name = "find_record" =>
        op.ret = SelectSeq(Values(data), LAMBDA r : Matches(op.arg, r))

\* C9: an edit_record that reaches the name prompt always runs to its end;
\* of the record chosen it replaces the name iff a name was typed, the
\* chosen phone iff the phone typed validates, the chosen email iff the
\* email typed validates and the birthday iff the date typed validates, each
\* whatever the other answers were; it changes nothing else in the mapping.
C9_EditStepsIndependent ==
    [][op'.name = "edit_record" =>
          LET a == op'.arg
              stops == \/ find_records_by_name(a.name_to_edit, data) = <<>>
                       \/ int(a.id_input) = <<>>
                       \/ int(a.id_input)[1] \notin Keys(data)
          IN  IF stops THEN op'.ret # "updated" /\ data' = data
              ELSE LET id == int(a.id_input)[1]
                       old == Get(data, id)
                       new == Get(data', id)
                       phoneOk == a.new_phone # NotAsked /\ PhoneValidator(a.new_phone)
                       emailOk == a.new_email # NotAsked /\ EmailValidator(a.new_email)
                       dateOk == a.new_birthday # <<>> /\ BirthdayValidator(a.new_birthday)
                   IN  /\ op'.ret = "updated"
                       /\ new.name = IF a.new_name = <<>> THEN old.name ELSE a.new_name
                       /\ new.phones = IF phoneOk
                                       THEN [old.phones EXCEPT ![DigitsValue(a.phone_choice)] = a.new_phone]
                                       ELSE old.phones
                       /\ new.emails = IF emailOk
                                       THEN [old.emails EXCEPT ![DigitsValue(a.email_choice)] = a.new_email]
                                       ELSE old.emails
                       /\ new.birthday = IF dateOk THEN <<a.new_birthday>> ELSE old.birthday
                       /\ new.id = old.id
                       /\ Len(data') = Len(data)
                       /\ \A i \in 1..Len(data) :
                             data[i].key # id => data'[i] = data[i]]_vars

\* C9 witness: one edit replaced the name, had its phone rejected, skipped
\* the email and replaced the birthday
C9_Witness ==
    /\ op.name = "edit_record"
    /\ op.ret = "updated"
    /\ op.arg.new_name = StrBo
    /\ op.arg.new_phone = PhoneBad
    /\ op.arg.email_choice = <<>>
    /\ op.arg.new_birthday = Birthday1
    /\ LET record == Get(data, int(op.arg.id_input)[1])
       IN  /\ record.name = StrBo
           /\ record.phones = <<Phone1, Phone2>>
           /\ record.emails = <<Email1>>
           /\ record.birthday = <<Birthday1>>

(***************************************************************************)
(* Notebook and TagManager                                                 *)
(*                                                                         *)
(* A note is the dict add_note builds, with the keys title, content and    *)
(* tags, and the history field born: the number of notes created before    *)
(* it.  born is not a key of the dict: no code reads it.                   *)
(***************************************************************************)
\* == on two note dicts
NoteEq(a, b) == a.title = b.title /\ a.content = b.content /\ a.tags = b.tags

\* `tag in note['tags']`
HasTag(note, tag) == \E i \in 1..Len(note.tags) : note.tags[i] = tag

\* list(note['tags']).count(tag)
TagCount(note, tag) == Cardinality({i \in 1..Len(note.tags) : note.tags[i] = tag})

\* x.get('created_at', datetime.min)
created_at(note) ==
    IF "created_at" \in DOMAIN note THEN note.created_at ELSE datetime_min

\* sorted(list, key=..., reverse=True), given the key of each element:
\* descending by key, and stable, so elements with equal keys stay in
\* their order
SortedReverse(list, keys) ==
    LET Before(i, j) == \/ keys[i] > keys[j]
                        \/ keys[i] = keys[j] /\ i < j
        Rank(i) == Cardinality({j \in 1..Len(list) : Before(j, i)}) + 1
    IN  [r \in 1..Len(list) |-> list[CHOOSE i \in 1..Len(list) : Rank(i) = r]]

\* a list object that neither reference refers to is freed
Collect(h, nb, tm) == [r \in Ref |-> IF r \in {nb, tm} THEN h[r] ELSE <<>>]

\* the place of a list object created while TagManager holds its list
NewRef == CHOOSE r \in Ref : r # tag_manager_notes

\* Notebook.add_note, then update_tags
add_note(title, content, tags) ==
    LET note == [title |-> title, content |-> content, tags |-> tags, born |-> clock]
    IN  /\ heap' = Collect([heap EXCEPT ![notebook_notes] = Append(@, note)],
                           notebook_notes, notebook_notes)
        /\ tag_manager_notes' = notebook_notes
        /\ clock' = clock + 1
        /\ op' = [name |-> "add_note", arg |-> tags, ret |-> 0]
        /\ UNCHANGED <<notebook_notes, notes_file, now, edits>>
        /\ UNCHANGED <<bookVars, recordVars, iterVars>>

\* Notebook.delete_note, given the integer main passes
delete_note(note_id) ==
    /\ IF 0 < note_id /\ note_id <= Len(heap[notebook_notes])
       THEN heap' = [heap EXCEPT ![notebook_notes] =
                        SubSeq(@, 1, note_id - 1) \o SubSeq(@, note_id + 1, Len(@))]
       ELSE UNCHANGED heap
    /\ op' = [name |-> "delete_note", arg |-> note_id, ret |-> 0]
    /\ UNCHANGED <<notebook_notes, tag_manager_notes, notes_file, clock, now, edits>>
    /\ UNCHANGED <<bookVars, recordVars, iterVars>>

\* Notebook.save_notes
save_notes ==
    /\ notes_file' = <<heap[notebook_notes]>>
    /\ op' = [name |-> "save_notes", arg |-> <<>>, ret |-> 0]
    /\ UNCHANGED <<heap, notebook_notes, tag_manager_notes, clock, now, edits>>
    /\ UNCHANGED <<bookVars, recordVars, iterVars>>

\* Notebook.load_notes: self.notes becomes a new list, the unpickled one or
\* the empty one
load_notes ==
    /\ notebook_notes' = NewRef
    /\ heap' = Collect([heap EXCEPT ![NewRef] =
                           IF notes_file = <<>> THEN <<>> ELSE notes_file[1]],
                       NewRef, tag_manager_notes)
    /\ op' = [name |-> "load_notes", arg |-> <<>>, ret |-> 0]
    /\ UNCHANGED <<tag_manager_notes, notes_file, clock, now, edits>>
    /\ UNCHANGED <<bookVars, recordVars, iterVars>>

\* the early return dropped: the list is always rebuilt and True returned
notebook_sorted_always(notes, tag) ==
    LET notes_with_tag == SelectSeq(notes, LAMBDA n : HasTag(n, tag))
    IN  [ret |-> TRUE, assigned |-> TRUE,
         notes |-> SortedReverse(notes_with_tag,
                                   [i \in 1..Len(notes_with_tag) |-> created_at(notes_with_tag[i])])
                      \o SelectSeq(notes, LAMBDA n :
                            ~\E i \in 1..Len(notes_with_tag) : NoteEq(n, notes_with_tag[i]))]

\* Notebook.sort_notes_by_tags: what it returns, whether it assigns
\* self.notes and the list it assigns
notebook_sorted(notes, tag) ==
    LET notes_with_tag == SelectSeq(notes, LAMBDA n : HasTag(n, tag))
    IN  IF notes_with_tag = <<>>
        THEN [ret |-> FALSE, assigned |-> FALSE, notes |-> notes]
        ELSE [ret |-> TRUE, assigned |-> TRUE,
              notes |-> SortedReverse(notes_with_tag,
                                   [i \in 1..Len(notes_with_tag) |-> created_at(notes_with_tag[i])])
                           \o SelectSeq(notes, LAMBDA n :
                                 ~\E i \in 1..Len(notes_with_tag) : NoteEq(n, notes_with_tag[i]))]

\* Notebook.sort_notes_by_tags
notebook_sort_notes_by_tags(tag) ==
    LET r == notebook_sorted(heap[notebook_notes], tag)
    IN  /\ IF r.assigned
           THEN /\ notebook_notes' = NewRef
                /\ heap' = Collect([heap EXCEPT ![NewRef] = r.notes],
                                   NewRef, tag_manager_notes)
           ELSE UNCHANGED <<notebook_notes, heap>>
        /\ op' = [name |-> "Notebook.sort_notes_by_tags", arg |-> tag, ret |-> r.ret]
        /\ UNCHANGED <<tag_manager_notes, notes_file, clock, now, edits>>
        /\ UNCHANGED <<bookVars, recordVars, iterVars>>

\* TagManager.sort_notes_by_tags: sorts the list it holds, in place
tag_manager_sort_notes_by_tags(tag) ==
    LET notes == heap[tag_manager_notes]
        tag_exists == \E i \in 1..Len(notes) : HasTag(notes[i], tag)
    IN  /\ IF tag_exists
           THEN heap' = [heap EXCEPT ![tag_manager_notes] =
                            SortedReverse(notes, [i \in 1..Len(notes) |-> TagCount(notes[i], tag)])]
           ELSE UNCHANGED heap
        /\ op' = [name |-> "TagManager.sort_notes_by_tags", arg |-> tag, ret |-> tag_exists]
        /\ UNCHANGED <<notebook_notes, tag_manager_notes, notes_file, clock, now, edits>>
        /\ UNCHANGED <<bookVars, recordVars, iterVars>>

(***************************************************************************)
(* Specification of the notebook                                           *)
(***************************************************************************)
TagX == <<"x">>
TagZ == <<"z">>

\* the tag lists typed in for a new note
TagLists == {<<>>, <<TagX>>, <<TagX, TagX>>}

InitNotes ==
    /\ BookInit
    /\ NotebookInit
    /\ RecordInit
    /\ IterInit
    /\ now = 0
    /\ edits = 0
    /\ op = NoOp

NotesAdd == clock < MaxNotes /\ \E tags \in TagLists : add_note(<<"t">>, <<"c">>, tags)

NotesDelete == \E note_id \in 0..(MaxNotes + 1) : delete_note(note_id)

NotesSave == save_notes

NotesLoad == load_notes

NotesSort == \E tag \in {TagX, TagZ} : notebook_sort_notes_by_tags(tag)

NotesTagSort == \E tag \in {TagX, TagZ} : tag_manager_sort_notes_by_tags(tag)

NextNotes == NotesAdd \/ NotesDelete \/ NotesSave \/ NotesLoad \/ NotesSort \/ NotesTagSort

SpecNotes == InitNotes /\ [][NextNotes]_vars

(***************************************************************************)
(* Claims on the notebook                                                  *)
(***************************************************************************)
\* C6: at all times the list TagManager reads holds the notes of the
\* Notebook's list, in the same order.
C6_TagManagerSeesNotebook == heap[tag_manager_notes] = heap[notebook_notes]

\* C7: when no note carries the tag, Notebook.sort_notes_by_tags returns
\* False and Notebook.notes is the same list with the same notes in the same
\* order as before.
C7_SortWithoutTagChangesNothing ==
    [][(/\ op'.name = "Notebook.sort_notes_by_tags"
        /\ \A i \in 1..Len(heap[notebook_notes]) : ~HasTag(heap[notebook_notes][i], op'.arg))
       => /\ op'.ret = FALSE
          /\ notebook_notes' = notebook_notes
          /\ heap'[notebook_notes'] = heap[notebook_notes]]_vars

\* C7 witness: the notebook holds two notes, one of them tagged, and a sort
\* by a tag that neither carries returned False
C7_Witness ==
    /\ op.name = "Notebook.sort_notes_by_tags"
    /\ op.arg = TagZ
    /\ op.ret = FALSE
    /\ Len(heap[notebook_notes]) = 2
    /\ \E i \in 1..2 : HasTag(heap[notebook_notes][i], TagX)

\* C8: when a note carries the tag, Notebook.sort_notes_by_tags returns True
\* and Notebook.notes becomes the notes with the tag, the one created last
\* first, followed by the notes without the tag in the order they had.
C8_SortTaggedNewestFirst ==
    [][(/\ op'.name = "Notebook.sort_notes_by_tags"
        /\ \E i \in 1..Len(heap[notebook_notes]) : HasTag(heap[notebook_notes][i], op'.arg))
       => LET before == heap[notebook_notes]
              after == heap'[notebook_notes']
              tagged == SelectSeq(before, LAMBDA n : HasTag(n, op'.arg))
          IN  /\ op'.ret = TRUE
              /\ after = SortedReverse(tagged, [i \in 1..Len(tagged) |-> tagged[i].born])
                            \o SelectSeq(before, LAMBDA n : ~HasTag(n, op'.arg))]_vars

(***************************************************************************)
(* Record.days_to_birthday                                                 *)
(*                                                                         *)
(* A datetime is [year, month, day, hour]: the time of day in whole hours. *)
(***************************************************************************)
HoursPerDay == 24

RECURSIVE DaysBeforeMonth(_, _)
\* the days of year y before its month m
DaysBeforeMonth(y, m) ==
    IF m = 1 THEN 0 ELSE DaysBeforeMonth(y, m - 1) + DaysInMonth(y, m - 1)

\* date.toordinal(): the days from 0001-01-01, which is day 1
toordinal(d) ==
    LET y == d.year - 1
    IN  y * 365 + (y \div 4) - (y \div 100) + (y \div 400)
            + DaysBeforeMonth(d.year, d.month) + d.day

\* a datetime in hours from 0001-01-01 00:00
Hours(dt) == (toordinal(dt) - 1) * HoursPerDay + dt.hour

\* datetime.replace(year=y): <<>> stands for ValueError
replace_year(dt, y) ==
    IF dt.day <= DaysInMonth(y, dt.month) THEN <<[dt EXCEPT !.year = y]>> ELSE <<>>

\* the result of days_to_birthday for a record without a birthday
NoBirthday == <<"Brak daty urodzenia">>

\* Record.days_to_birthday: <<n>> for the int n, <<>> for the ValueError
\* that replace() raises
days_to_birthday(record, today) ==
    IF record.birthday = <<>> THEN NoBirthday
    ELSE LET parsed == strptime(record.birthday[1])[1]
             bday == [year |-> parsed.year, month |-> parsed.month,
                      day |-> parsed.day, hour |-> 0]
             this_year == replace_year(bday, today.year)
         IN  IF this_year = <<>> THEN <<>>
             ELSE LET next_birthday ==
                          IF Hours(today) > Hours(this_year[1])
                          THEN replace_year(this_year[1], today.year + 1)
                          ELSE this_year
                  IN  IF next_birthday = <<>> THEN <<>>
                      ELSE <<(Hours(next_birthday[1]) - Hours(today)) \div HoursPerDay>>

\* Record.days_to_birthday on the record with the given id, at the time now
DaysToBirthday(id) ==
    /\ op' = [name |-> "days_to_birthday", arg |-> id,
              ret |-> days_to_birthday(Get(data, id), now)]
    /\ UNCHANGED <<data, next_id, free_ids, book_file, saved, reloaded, now, edits>>
    /\ UNCHANGED <<noteVars, recordVars, iterVars>>

(***************************************************************************)
(* Specification of days_to_birthday: one record, asked at some time       *)
(***************************************************************************)
\* two decimal digits
Format2(n) == <<DigitSeq[(n \div 10) + 1], DigitSeq[(n % 10) + 1]>>

\* the date typed as YYYY-MM-DD, for a year of the 2000s
DateString(y, m, d) ==
    <<"2", "0">> \o Format2(y - 2000) \o <<"-">> \o Format2(m) \o <<"-">> \o Format2(d)

\* the month/day pairs of the birthdays typed in and of the days the
\* question is asked on
MonthDays == {<<1, 1>>, <<2, 28>>, <<2, 29>>, <<3, 1>>, <<3, 2>>, <<3, 3>>, <<12, 31>>}

BirthdayStrings == {DateString(2000, md[1], md[2]) : md \in MonthDays}

Nows ==
    {dt \in {[year |-> y, month |-> md[1], day |-> md[2], hour |-> h] :
                y \in {2023, 2024}, md \in MonthDays, h \in {0, 10}} :
        dt.day <= DaysInMonth(dt.year, dt.month)}

\* a book with one record, as add_record leaves it, at some time
InitBirthday ==
    /\ \E b \in BirthdayStrings \cup {<<>>} :
          data = Put(<<>>, 1,
                     [create_record(StrAn, IF b = <<>> THEN <<>> ELSE <<b>>, <<>>, <<>>)
                         EXCEPT !.id = 1])
    /\ next_id = 1
    /\ free_ids = {}
    /\ book_file = <<>>
    /\ saved = [next_id |-> 1, free_ids |-> {}]
    /\ reloaded = FALSE
    /\ NotebookInit
    /\ RecordInit
    /\ IterInit
    /\ now \in Nows
    /\ edits = 0
    /\ op = NoOp

BirthdayAsk == \E id \in Keys(data) : DaysToBirthday(id)

NextBirthday == BirthdayAsk

SpecBirthday == InitBirthday /\ [][NextBirthday]_vars

(***************************************************************************)
(* Claim on days_to_birthday                                               *)
(***************************************************************************)
\* the calendar days from the date of today to the next day with the
\* birthday's month and day: this year's if it is today or later, else
\* next year's
CalendarDaysToBirthday(bday, today) ==
    LET this == [year |-> today.year, month |-> bday.month, day |-> bday.day]
        next == IF toordinal(this) >= toordinal(today)
                THEN this ELSE [this EXCEPT !.year = today.year + 1]
    IN  toordinal(next) - toordinal(today)

\* C10: for a record with a birthday (29 February left aside)
\* days_to_birthday returns the calendar days from today to the next
\* occurrence of the birthday: 1 when the birthday is tomorrow, at any time
\* of day, and at least 0 and less than 365 when this year's birthday has
\* passed.
C10_CalendarDaysToBirthday ==
    (/\ op.name = "days_to_birthday"
     /\ Get(data, op.arg).birthday # <<>>
     /\ LET b == strptime(Get(data, op.arg).birthday[1])[1]
        IN  ~(b.month = 2 /\ b.day = 29))
    => LET bday == strptime(Get(data, op.arg).birthday[1])[1]
           this == [year |-> now.year, month |-> bday.month, day |-> bday.day]
       IN  /\ op.ret = <<CalendarDaysToBirthday(bday, now)>>
           /\ toordinal(this) = toordinal(now) + 1 => op.ret = <<1>>
           /\ toordinal(this) < toordinal(now) => (op.ret[1] >= 0 /\ op.ret[1] < 365)

(***************************************************************************)
(* Claim on the stored field values                                        *)
(***************************************************************************)
\* C11: at all times every phone of every record of the book is accepted by
\* PhoneValidator, every email by EmailValidator and every birthday by
\* BirthdayValidator, whatever was typed at create_record's and
\* edit_record's prompts.
C11_StoredFieldsValid ==
    \A k \in 1..Len(data) :
        LET r == data[k].value
        IN  /\ \A i \in 1..Len(r.phones) : PhoneValidator(r.phones[i])
            /\ \A i \in 1..Len(r.emails) : EmailValidator(r.emails[i])
            /\ \A i \in 1..Len(r.birthday) : BirthdayValidator(r.birthday[i])

\* C11 witness: a record created from valid and invalid lines was edited
\* with an invalid phone, an invalid email and an invalid birthday typed
C11_Witness ==
    /\ op.name = "edit_record"
    /\ op.ret = "updated"
    /\ op.arg.new_phone = PhoneBad
    /\ op.arg.new_email = EmailBad
    /\ op.arg.new_birthday = BirthdayBad
    /\ LET r == Get(data, int(op.arg.id_input)[1])
       IN  r.phones = <<Phone1, Phone2>> /\ r.emails = <<Email1>>

(***************************************************************************)
(* Record: removing and replacing phones and emails                        *)
(***************************************************************************)
MaxObjects == 4       \* Phone / Email objects constructed in the record specification

\* Field.__init__ (Phone(value), Email(value)): an object holding a value;
\* id is the object's identity, the number of the construction that made it
Field(id, value) == [id |-> id, value |-> value]

\* a == b on two Field objects: Field, Phone and Email define no __eq__, so
\* this is object.__eq__, which compares identity
field_eq(a, b) == a.id = b.id

\* list.remove(x): <<the list without its first item equal to x>>, or <<>>
\* when it raises ValueError
list_remove(list, x) ==
    LET hits == {i \in 1..Len(list) : field_eq(list[i], x)}
    IN  IF hits = {} THEN <<>>
        ELSE LET first == CHOOSE i \in hits : \A j \in hits : i <= j
             IN  <<SubSeq(list, 1, first - 1) \o SubSeq(list, first + 1, Len(list))>>

\* Record.remove_phone: <<the record after it>>, or <<>> when it raises
remove_phone(record, phone) ==
    LET removed == list_remove(record.phones, phone)
    IN  IF removed = <<>> THEN <<>>
        ELSE <<[record EXCEPT !.phones = removed[1]]>>

\* Record.edit_phone: remove_phone, then add_phone unless the removal raised
edit_phone(record, old_phone, new_phone) ==
    LET removed == remove_phone(record, old_phone)
    IN  IF removed = <<>> THEN <<>>
        ELSE <<add_phone(removed[1], new_phone)>>

\* Record.remove_email
remove_email(record, email) ==
    LET removed == list_remove(record.emails, email)
    IN  IF removed = <<>> THEN <<>>
        ELSE <<[record EXCEPT !.emails = removed[1]]>>

\* Record.edit_email: remove_email, then add_email unless the removal raised
edit_email(record, old_email, new_email) ==
    LET removed == remove_email(record, old_email)
    IN  IF removed = <<>> THEN <<>>
        ELSE <<add_email(removed[1], new_email)>>

(***************************************************************************)
(* Specification of one record: phones and emails added, removed, replaced *)
(***************************************************************************)
PhoneValues == {Phone1, Phone2}
EmailValues == {Email1, Email2}

\* the objects a caller may pass as the one to remove: an object of the
\* list itself, or a newly constructed one holding one of the values
Removable(list, values) ==
    Range(list) \cup {Field(objects + 1, v) : v \in values}

\* the number of objects constructed for a call removing old
Constructed(old) == IF old.id > objects THEN 1 ELSE 0

\* a call on the record: what it leaves, given its result
RecordCall(name, arg, result, constructed) ==
    /\ objects + constructed <= MaxObjects
    /\ objects' = objects + constructed
    /\ the_record' = IF result = <<>> THEN the_record ELSE result[1]
    /\ op' = [name |-> name, arg |-> arg,
             ret |-> IF result = <<>> THEN "ValueError" ELSE "ok"]
    /\ UNCHANGED <<now, edits>>
    /\ UNCHANGED <<bookVars, noteVars, iterVars>>

RecordAddPhone ==
    \E v \in PhoneValues :
        RecordCall("add_phone", [old |-> <<>>, new |-> Field(objects + 1, v)],
                   <<add_phone(the_record, Field(objects + 1, v))>>, 1)

RecordAddEmail ==
    \E v \in EmailValues :
        RecordCall("add_email", [old |-> <<>>, new |-> Field(objects + 1, v)],
                   <<add_email(the_record, Field(objects + 1, v))>>, 1)

RecordRemovePhone ==
    \E old \in Removable(the_record.phones, PhoneValues) :
        RecordCall("remove_phone", [old |-> old, new |-> <<>>],
                   remove_phone(the_record, old), Constructed(old))

RecordRemoveEmail ==
    \E old \in Removable(the_record.emails, EmailValues) :
        RecordCall("remove_email", [old |-> old, new |-> <<>>],
                   remove_email(the_record, old), Constructed(old))

RecordEditPhone ==
    \E old \in Removable(the_record.phones, PhoneValues) : \E v \in PhoneValues :
        LET new == Field(objects + Constructed(old) + 1, v)
        IN  RecordCall("edit_phone", [old |-> old, new |-> new],
                       edit_phone(the_record, old, new), Constructed(old) + 1)

RecordEditEmail ==
    \E old \in Removable(the_record.emails, EmailValues) : \E v \in EmailValues :
        LET new == Field(objects + Constructed(old) + 1, v)
        IN  RecordCall("edit_email", [old |-> old, new |-> new],
                       edit_email(the_record, old, new), Constructed(old) + 1)

InitRecord ==
    /\ BookInit
    /\ NotebookInit
    /\ RecordInit
    /\ IterInit
    /\ now = 0
    /\ edits = 0
    /\ op = NoOp

NextRecord ==
    \/ RecordAddPhone
    \/ RecordAddEmail
    \/ RecordRemovePhone
    \/ RecordRemoveEmail
    \/ RecordEditPhone
    \/ RecordEditEmail

SpecRecord == InitRecord /\ [][NextRecord]_vars

(***************************************************************************)
(* Claim on removing and replacing by value                                *)
(***************************************************************************)
\* the position of the first entry of list holding value, 0 when none does
FirstWithValue(list, value) ==
    LET hits == {i \in 1..Len(list) : list[i].value = value}
    IN  IF hits = {} THEN 0 ELSE Min(hits)

\* what the claim says a removal (and, for an edit, the addition after it)
\* does to a list
RemovedByValue(list, old, added, ret, list_after) ==
    LET first == FirstWithValue(list, old.value)
    IN  IF first = 0
        THEN ret # "ok" /\ list_after = list
        ELSE /\ ret = "ok"
             /\ list_after = SubSeq(list, 1, first - 1)
                                 \o SubSeq(list, first + 1, Len(list)) \o added

\* C12: remove_phone / remove_email removes the first entry whose value
\* equals the argument's value, whether or not it is the same object, and
\* keeps the others in order; it fails only when no entry has that value,
\* leaving the list as it was, so edit_phone / edit_email with old absent
\* fails and adds nothing, and with old present replaces it by new at the end.
C12_RemoveFirstEqualValue ==
    [][/\ op'.name \in {"remove_phone", "edit_phone"} =>
            RemovedByValue(the_record.phones, op'.arg.old,
                           IF op'.name = "edit_phone" THEN <<op'.arg.new>> ELSE <<>>,
                           op'.ret, the_record'.phones)
       /\ op'.name \in {"remove_email", "edit_email"} =>
            RemovedByValue(the_record.emails, op'.arg.old,
                           IF op'.name = "edit_email" THEN <<op'.arg.new>> ELSE <<>>,
                           op'.ret, the_record'.emails)]_vars

(***************************************************************************)
(* AddressBook: iteration in batches                                       *)
(***************************************************************************)
MaxIterRecords == 11  \* records in the book of the iteration specification

\* the slice taken four long
next_batch_short(d, cur) ==
    SubSeq(Values(d), cur + 1, IF cur + 4 < Len(d) THEN cur + 4 ELSE Len(d))

\* __next__'s slice list(self.data.values())[current:current+5]
next_batch(d, cur) ==
    SubSeq(Values(d), cur + 1, IF cur + 5 < Len(d) THEN cur + 5 ELSE Len(d))

\* AddressBook.__iter__: the position, kept on the book itself, is reset.
\* The history follows one iteration from its __iter__ to its first
\* StopIteration and keeps its batches while it is undisturbed; an __iter__
\* in the midst of it disturbs it.
book_iter ==
    /\ current' = <<0>>
    /\ iteration' = IF iteration.state = "running"
                    THEN [iteration EXCEPT !.clean = FALSE]
                    ELSE [state |-> "running", clean |-> TRUE, store |-> data,
                          batches |-> <<>>]
    /\ op' = [name |-> "__iter__", arg |-> <<>>, ret |-> 0]
    /\ UNCHANGED <<now, edits>>
    /\ UNCHANGED <<bookVars, noteVars, recordVars>>

\* AddressBook.__next__: AttributeError before any __iter__; else the next
\* batch, or StopIteration once the position is past the last record.
\* clean stays TRUE while the book is, at every __next__, as it was at __iter__.
book_next ==
    /\ IF current = <<>>
       THEN /\ UNCHANGED iterVars
            /\ op' = [name |-> "__next__", arg |-> <<>>, ret |-> "AttributeError"]
       ELSE IF current[1] < Len(data)
       THEN /\ current' = <<current[1] + 5>>
            /\ iteration' =
                   IF iteration.state = "running" /\ iteration.clean
                   THEN IF data = iteration.store
                        THEN [iteration EXCEPT
                                 !.batches = Append(@, next_batch(data, current[1]))]
                        ELSE [iteration EXCEPT !.clean = FALSE]
                   ELSE iteration
            /\ op' = [name |-> "__next__", arg |-> <<>>,
                     ret |-> <<next_batch(data, current[1])>>]
       ELSE /\ UNCHANGED current
            /\ iteration' =
                   IF iteration.state = "running"
                   THEN [iteration EXCEPT
                            !.state = "exhausted",
                            !.clean = @ /\ data = iteration.store]
                   ELSE iteration
            /\ op' = [name |-> "__next__", arg |-> <<>>, ret |-> "StopIteration"]
    /\ UNCHANGED <<now, edits>>
    /\ UNCHANGED <<bookVars, noteVars, recordVars>>

(***************************************************************************)
(* Specification of the iteration: add, __iter__, __next__                 *)
(***************************************************************************)
InitIter ==
    /\ BookInit
    /\ NotebookInit
    /\ RecordInit
    /\ IterInit
    /\ now = 0
    /\ edits = 0
    /\ op = NoOp

IterAdd == \E r \in IdsRecords : Len(data) < MaxIterRecords /\ add_record(r)

IterIter == book_iter

IterNext == book_next

NextIter ==
    \/ IterAdd
    \/ IterIter
    \/ IterNext

SpecIter == InitIter /\ [][NextIter]_vars

(***************************************************************************)
(* Claim on the iteration                                                  *)
(***************************************************************************)
RECURSIVE Concat(_)
\* the batches laid end to end
Concat(batches) ==
    IF batches = <<>> THEN <<>> ELSE Head(batches) \o Concat(Tail(batches))

\* C13: an iteration begun afresh over a book of n records and run to its
\* StopIteration, with no change to the book and no other __iter__ in
\* between, yields ceil(n/5) batches, each of exactly 5 records except
\* possibly the last, which together are every record once in the book's
\* order; over an empty book it yields no batch.
C13_PagedIteration ==
    (iteration.state = "exhausted" /\ iteration.clean) =>
        LET n == Len(iteration.store)
            b == iteration.batches
        IN  /\ Len(b) = (n + 4) \div 5
            /\ \A k \in 1..(Len(b) - 1) : Len(b[k]) = 5
            /\ \A k \in 1..Len(b) : Len(b[k]) >= 1 /\ Len(b[k]) <= 5
            /\ Concat(b) = Values(iteration.store)
            /\ n = 0 => b = <<>>

\* C13 witness: an undisturbed iteration over 11 records ended after two
\* batches of 5 and a last batch of 1
C13_Witness ==
    /\ iteration.state = "exhausted"
    /\ iteration.clean
    /\ Len(iteration.store) = 11
    /\ Len(iteration.batches) = 3
    /\ Len(iteration.batches[3]) = 1
    /\ op.name = "__next__"

(***************************************************************************)
(* AddressBook: delete_record                                              *)
(***************************************************************************)
\* AddressBook.delete_record, given the lines typed at its prompts: without
\* a record matching the name nothing is asked or removed; else int() of
\* the id typed, as it stands, then the removal
delete_record(name_to_delete, id_input) ==
    IF find_records_by_name(name_to_delete, data) = <<>>
    THEN /\ op' = [name |-> "delete_record", arg |-> NotAsked, ret |-> 0]
         /\ reloaded' = FALSE
         /\ UNCHANGED <<data, next_id, free_ids, book_file, saved, now, edits>>
         /\ UNCHANGED <<noteVars, recordVars, iterVars>>
    ELSE DeleteId("delete_record", id_input)

(***************************************************************************)
(* Specification of the free ids: add, delete_record_by_id, delete_record  *)
(***************************************************************************)
MaxFreeRecords == 3   \* records alive in the book of the free-id specification

\* the records typed in: a name and nothing else
FreeRecords == {create_record(StrAn, <<>>, <<>>, <<>>),
                create_record(StrBo, <<>>, <<>>, <<>>)}

\* the lines typed at the id prompts of delete_record_by_id and delete_record
FreeIdInputs ==
    {<<DigitSeq[i + 1]>> : i \in 1..MaxFreeRecords}
        \cup {<<"I", "D", ":", " ", "2">>, <<"x">>, <<"0">>, <<"-", "1">>}

\* the lines typed at delete_record's name prompt
FreeNameInputs == {<<"b">>, <<"z">>}

InitFree ==
    /\ BookInit
    /\ NotebookInit
    /\ RecordInit
    /\ IterInit
    /\ now = 0
    /\ edits = 0
    /\ op = NoOp

FreeAdd == Len(data) < MaxFreeRecords /\ \E r \in FreeRecords : add_record(r)

FreeDeleteById == \E i \in FreeIdInputs : delete_record_by_id(i)

FreeDelete == \E n \in FreeNameInputs : \E i \in FreeIdInputs : delete_record(n, i)

NextFree ==
    \/ FreeAdd
    \/ FreeDeleteById
    \/ FreeDelete

SpecFree == InitFree /\ [][NextFree]_vars

(***************************************************************************)
(* Claim on the free ids                                                   *)
(***************************************************************************)
\* C14: after any sequence of add_record, delete_record_by_id and
\* delete_record calls, deletes of absent and of non-integer ids among
\* them, no free id is a key of the mapping, every free id is >= 1, and no
\* call lowers next_id.
C14_FreeIdsApartFromKeys ==
    /\ [](/\ Keys(data) \cap free_ids = {}
          /\ \A f \in free_ids : f >= 1)
    /\ [][next_id' >= next_id]_vars

\* C14 witness: ids 1 and 2 were freed, id 3 is in use, and delete_record
\* was just given "-1" for an id and removed nothing
C14_Witness ==
    /\ op.name = "delete_record"
    /\ op.arg = <<"-", "1">>
    /\ op.ret = 0
    /\ free_ids = {1, 2}
    /\ Keys(data) = {3}
    /\ next_id = 3

====
